---- MODULE Spec2Model ----
(***************************************************************************)
(* Overlap resolution of the annotation table (EcossDataset in             *)
(* src/src/pipeline/dataset.py): filter_overlapping and its helpers        *)
(* _check_superposition, _handle_superposition and _divide_labels.         *)
(*                                                                         *)
(* Times are integers 0..MaxT (the code only compares, copies and takes    *)
(* the max of times).  The table self.df is a sequence of rows in row      *)
(* order; every row carries its index label in the field id.               *)
(***************************************************************************)
EXTENDS Integers, Sequences, FiniteSets, TLC

\* ---------------------------------------------------------------- bounds
\* Largest time stamp of an annotation.
MaxT == 3
\* Largest number of rows in the table when filter_overlapping starts.
MaxRows == 2
\* Number of trailing rows of annotations.csv dropped before the pass
\* (fix_onthology's dropna, drop_unwanted_labels): their index labels are
\* the targets of dangling overlap references.
MaxDropped == 1
\* Longest list of excise ranges handed to _divide_labels on its own.
MaxSegs == 2

Times == 0..MaxT
Labels == {"x", "y"}
Files == {"f1", "f2"}

\* ------------------------------------------------------------- utilities
Max2(a, b) == IF a >= b THEN a ELSE b
Min2(a, b) == IF a <= b THEN a ELSE b

RECURSIVE SetMax(_)
SetMax(S) ==
    LET x == CHOOSE y \in S : TRUE
    IN  IF S = {x} THEN x ELSE Max2(x, SetMax(S \ {x}))

\* ------------------------------------------------- SuperpositionType enum
NO_SUPERPOSITION == "NO_SUPERPOSITION"
STARTS_BEFORE_AND_OVERLAPS == "STARTS_BEFORE_AND_OVERLAPS"
STARTS_AFTER_AND_OVERLAPS == "STARTS_AFTER_AND_OVERLAPS"
CONTAINS == "CONTAINS"
IS_CONTAINED == "IS_CONTAINED"

SuperpositionType ==
    { NO_SUPERPOSITION, STARTS_BEFORE_AND_OVERLAPS, STARTS_AFTER_AND_OVERLAPS,
      CONTAINS, IS_CONTAINED }

\* --------------------------------------------------- _check_superposition
\* Mutant: the two containment tests come before the two partial-overlap tests.
check_superposition_containment_first(segment1, segment2) ==
    LET t_min1 == segment1[1]
        t_max1 == segment1[2]
        t_min2 == segment2[1]
        t_max2 == segment2[2]
    IN  IF t_min1 <= t_min2 /\ t_max1 >= t_max2
          THEN CONTAINS
        ELSE IF t_min2 <= t_min1 /\ t_max2 >= t_max1
          THEN IS_CONTAINED
        ELSE IF t_min1 <= t_min2 /\ t_min2 <= t_max1 /\ t_max1 < t_max2
          THEN STARTS_BEFORE_AND_OVERLAPS
        ELSE IF t_min2 <= t_min1 /\ t_min1 <= t_max2 /\ t_max2 < t_max1
          THEN STARTS_AFTER_AND_OVERLAPS
        ELSE NO_SUPERPOSITION

\* Mutant: the second test compares t_max2 <= t_max1 where the code has <.
check_superposition_weak_second(segment1, segment2) ==
    LET t_min1 == segment1[1]
        t_max1 == segment1[2]
        t_min2 == segment2[1]
        t_max2 == segment2[2]
    IN  IF t_min1 <= t_min2 /\ t_min2 <= t_max1 /\ t_max1 < t_max2
          THEN STARTS_BEFORE_AND_OVERLAPS
        ELSE IF t_min2 <= t_min1 /\ t_min1 <= t_max2 /\ t_max2 <= t_max1
          THEN STARTS_AFTER_AND_OVERLAPS
        ELSE IF t_min1 <= t_min2 /\ t_max1 >= t_max2
          THEN CONTAINS
        ELSE IF t_min2 <= t_min1 /\ t_max2 >= t_max1
          THEN IS_CONTAINED
        ELSE NO_SUPERPOSITION

\* segment1, segment2 are <<t_min, t_max>>; the if/elif chain of the code.
_check_superposition(segment1, segment2) ==
    LET t_min1 == segment1[1]
        t_max1 == segment1[2]
        t_min2 == segment2[1]
        t_max2 == segment2[2]
    IN  IF t_min1 <= t_min2 /\ t_min2 <= t_max1 /\ t_max1 < t_max2
          THEN STARTS_BEFORE_AND_OVERLAPS
        ELSE IF t_min2 <= t_min1 /\ t_min1 <= t_max2 /\ t_max2 < t_max1
          THEN STARTS_AFTER_AND_OVERLAPS
        ELSE IF t_min1 <= t_min2 /\ t_max1 >= t_max2
          THEN CONTAINS
        ELSE IF t_min2 <= t_min1 /\ t_max2 >= t_max1
          THEN IS_CONTAINED
        ELSE NO_SUPERPOSITION

\* --------------------------------------------------------- _divide_labels
\* Python's order on [tmin, tmax] lists: lexicographic.
SegLeq(s, t) == s[1] < t[1] \/ (s[1] = t[1] /\ s[2] <= t[2])

RECURSIVE InsertSeg(_, _)
InsertSeg(s, sorted) ==
    IF sorted = << >> THEN << s >>
    ELSE IF SegLeq(s, Head(sorted)) THEN << s >> \o sorted
    ELSE << Head(sorted) >> \o InsertSeg(s, Tail(sorted))

\* Mutant: the segments are swept in the order given.
sort_segments_as_given(segments) == segments

\* segments.sort()
RECURSIVE SortSegments(_)
SortSegments(segments) ==
    IF segments = << >> THEN << >>
    ELSE InsertSeg(Head(segments), SortSegments(Tail(segments)))

\* Mutant: the piece before a segment is emitted without the test
\* segment[0] > start.
RECURSIVE DivideSweepUnguarded(_, _, _)
DivideSweepUnguarded(sorted, start, subevents) ==
    IF sorted = << >> THEN << start, subevents >>
    ELSE LET segment == Head(sorted)
         IN  DivideSweepUnguarded(Tail(sorted), Max2(start, segment[2]),
                                  Append(subevents, << start, segment[1] >>))

\* The for loop over the sorted segments: start is the cursor, subevents the
\* pieces emitted so far.  Returns <<start, subevents>> after the loop.
RECURSIVE DivideSweep(_, _, _)
DivideSweep(sorted, start, subevents) ==
    IF sorted = << >> THEN << start, subevents >>
    ELSE LET segment == Head(sorted)
             emitted == IF segment[1] > start
                          THEN Append(subevents, << start, segment[1] >>)
                          ELSE subevents
         IN  DivideSweep(Tail(sorted), Max2(start, segment[2]), emitted)

\* Mutant: the cursor advances to the start of the segment, not to its end.
RECURSIVE DivideSweepToStart(_, _, _)
DivideSweepToStart(sorted, start, subevents) ==
    IF sorted = << >> THEN << start, subevents >>
    ELSE LET segment == Head(sorted)
             emitted == IF segment[1] > start
                          THEN Append(subevents, << start, segment[1] >>)
                          ELSE subevents
         IN  DivideSweepToStart(Tail(sorted), Max2(start, segment[1]), emitted)

divide_labels_cursor_to_start(event, segments) ==
    LET swept == DivideSweepToStart(SortSegments(segments), event[1], << >>)
    IN  IF swept[1] < event[2]
          THEN Append(swept[2], << swept[1], event[2] >>)
          ELSE swept[2]

\* Mutant: the piece after the last segment is not emitted.
divide_labels_no_tail(event, segments) ==
    DivideSweep(SortSegments(segments), event[1], << >>)[2]

\* Mutant: the piece after the last segment is emitted without the test
\* start < tmax.
divide_labels_unguarded_tail(event, segments) ==
    LET swept == DivideSweep(SortSegments(segments), event[1], << >>)
    IN  Append(swept[2], << swept[1], event[2] >>)

_divide_labels(event, segments) ==
    LET tmin == event[1]
        tmax == event[2]
        swept == DivideSweep(SortSegments(segments), tmin, << >>)
        start == swept[1]
        subevents == swept[2]
    IN  IF start < tmax THEN Append(subevents, << start, tmax >>) ELSE subevents

\* ------------------------------------------------------------ the table
VARIABLES
    df,                  \* self.df: sequence of rows, in row order
    df0,                 \* self.df as it was when filter_overlapping was called
    scan,                \* index labels the iterrows() generator of line 199 yields
    pos,                 \* position of the for loop of line 199 in scan
    refpos,              \* position of the for loop of line 206 in the row's list
    segments_to_delete,  \* line 205
    not_count,           \* line 200
    pc,                  \* "start", "scan", "refs", "done"; "idle" outside a pass
    args,                \* arguments of a helper called on its own
    result,              \* what that call returned
    returned,            \* whether it has returned
    self,                \* the fields of the EcossDataset object set by __init__
    processed_signals,   \* line 317
    processed_labels,    \* line 318
    processed_splits,    \* line 319
    files_dict,          \* line 320
    disk,                \* the files under path_store_data: name -> content
    log,                 \* what logger.error has recorded
    segment_rows,        \* history: for each processed segment, the position of
                         \* the row it was cut from
    \* EffAtModel.train
    epoch,                       \* i of line 209: epochs completed so far
    best_accuracy,               \* line 201
    epochs_without_improvement,  \* line 202
    test_accs,                   \* line 204
    saved_at                     \* history: the epochs in which lines 290-301 saved

passVars == << df, df0, scan, pos, refpos, segments_to_delete, not_count, pc >>
callVars == << args, result, returned >>
runVars == << self, processed_signals, processed_labels, processed_splits,
              files_dict, disk, log, segment_rows >>
trainVars == << epoch, best_accuracy, epochs_without_improvement, test_accs, saved_at >>
vars == << df, df0, scan, pos, refpos, segments_to_delete, not_count, pc,
           args, result, returned, self, processed_signals, processed_labels,
           processed_splits, files_dict, disk, log, segment_rows,
           epoch, best_accuracy, epochs_without_improvement, test_accs, saved_at >>

\* self.df.index
Index(d) == { d[i].id : i \in 1..Len(d) }

\* Position of the row labelled idx (index labels are unique).
PosOf(d, idx) == CHOOSE i \in 1..Len(d) : d[i].id = idx

\* self.df.loc[idx]
Loc(d, idx) == d[PosOf(d, idx)]

\* self.df.at[idx, col] = value, for the columns the pass writes.
AtTmin(d, idx, v) == [d EXCEPT ![PosOf(d, idx)].tmin = v]
AtTmax(d, idx, v) == [d EXCEPT ![PosOf(d, idx)].tmax = v]
AtToDelete(d, idx, v) == [d EXCEPT ![PosOf(d, idx)].to_delete = v]

\* The float column "overlapping": NaN is the empty tuple, a number v is <<v>>.
NaN == << >>
\* np.isnan / pd.isna
isna(v) == v = NaN

\* ------------------------------------------------ _extract_overlapping_info
\* One entry per row: [] for a NaN "overlapping", else the parsed triples
\* <<index, start, stop>> of overlap_info.
_extract_overlapping_info(d) ==
    [i \in 1..Len(d) |->
        IF isna(d[i].overlapping) THEN << >> ELSE d[i].overlap_info]

\* --------------------------------------------------- _handle_superposition
\* Mutant: the IS_CONTAINED branch is missing.
handle_superposition_no_contained(d, eval_idx, overlap_idx, superpos) ==
    IF superpos = STARTS_BEFORE_AND_OVERLAPS THEN
        LET d1 == AtTmax(d, eval_idx, Loc(d, overlap_idx).tmin)
            d2 == AtTmin(d1, overlap_idx, Loc(d1, eval_idx).tmax)
        IN  << d2, FALSE >>
    ELSE IF superpos = STARTS_AFTER_AND_OVERLAPS THEN
        LET d1 == AtTmin(d, eval_idx, Loc(d, overlap_idx).tmax)
            d2 == AtTmax(d1, overlap_idx, Loc(d1, eval_idx).tmin)
        IN  << d2, FALSE >>
    ELSE << d, FALSE >>

\* Mutant: each branch writes the overlapping row first, from the evaluated
\* row's bound, and then the evaluated row from the overlapping row's old bound.
handle_superposition_other_first(d, eval_idx, overlap_idx, superpos) ==
    IF superpos = STARTS_BEFORE_AND_OVERLAPS THEN
        LET d1 == AtTmin(d, overlap_idx, Loc(d, eval_idx).tmax)
            d2 == AtTmax(d1, eval_idx, Loc(d, overlap_idx).tmin)
        IN  << d2, FALSE >>
    ELSE IF superpos = STARTS_AFTER_AND_OVERLAPS THEN
        LET d1 == AtTmax(d, overlap_idx, Loc(d, eval_idx).tmin)
            d2 == AtTmin(d1, eval_idx, Loc(d, overlap_idx).tmax)
        IN  << d2, FALSE >>
    ELSE IF superpos = IS_CONTAINED THEN
        << AtToDelete(d, eval_idx, TRUE), TRUE >>
    ELSE << d, FALSE >>

\* Mutant: the overlapping row is written from the bound the evaluated row had
\* before the step.
handle_superposition_clips_other(d, eval_idx, overlap_idx, superpos) ==
    IF superpos = STARTS_BEFORE_AND_OVERLAPS THEN
        LET d1 == AtTmax(d, eval_idx, Loc(d, overlap_idx).tmin)
            d2 == AtTmin(d1, overlap_idx, Loc(d, eval_idx).tmax)
        IN  << d2, FALSE >>
    ELSE IF superpos = STARTS_AFTER_AND_OVERLAPS THEN
        LET d1 == AtTmin(d, eval_idx, Loc(d, overlap_idx).tmax)
            d2 == AtTmax(d1, overlap_idx, Loc(d, eval_idx).tmin)
        IN  << d2, FALSE >>
    ELSE IF superpos = IS_CONTAINED THEN
        << AtToDelete(d, eval_idx, TRUE), TRUE >>
    ELSE << d, FALSE >>

\* Returns <<new table, not_count>>.  Each branch writes the evaluated row
\* first and then the overlapping row from the value just written.
_handle_superposition(d, eval_idx, overlap_idx, superpos) ==
    IF superpos = STARTS_BEFORE_AND_OVERLAPS THEN
        LET d1 == AtTmax(d, eval_idx, Loc(d, overlap_idx).tmin)
            d2 == AtTmin(d1, overlap_idx, Loc(d1, eval_idx).tmax)
        IN  << d2, FALSE >>
    ELSE IF superpos = STARTS_AFTER_AND_OVERLAPS THEN
        LET d1 == AtTmin(d, eval_idx, Loc(d, overlap_idx).tmax)
            d2 == AtTmax(d1, overlap_idx, Loc(d1, eval_idx).tmin)
        IN  << d2, FALSE >>
    ELSE IF superpos = IS_CONTAINED THEN
        << AtToDelete(d, eval_idx, TRUE), TRUE >>
    ELSE << d, FALSE >>

\* ------------------------------------------------------ filter_overlapping
\* Mutant: the copy keeps the label of the row it was copied from.
RECURSIVE AppendSegmentsSameLabel(_, _, _)
AppendSegmentsSameLabel(d, eval_idx, final_segments) ==
    IF final_segments = << >> THEN d
    ELSE LET seg == Head(final_segments)
             new_row == [Loc(d, eval_idx) EXCEPT !.tmin = seg[1], !.tmax = seg[2]]
         IN  AppendSegmentsSameLabel(Append(d, new_row), eval_idx, Tail(final_segments))

\* Lines 225-231: one row per final segment, a copy of the evaluated row with
\* new bounds, labelled np.max(self.df.index)+1 and concatenated at the end.
RECURSIVE AppendSegments(_, _, _)
AppendSegments(d, eval_idx, final_segments) ==
    IF final_segments = << >> THEN d
    ELSE LET seg == Head(final_segments)
             new_row == [Loc(d, eval_idx) EXCEPT
                            !.tmin = seg[1], !.tmax = seg[2],
                            !.id = SetMax(Index(d)) + 1]
         IN  AppendSegments(Append(d, new_row), eval_idx, Tail(final_segments))

\* Mutant: line 236 drops nothing.
keep_every_row(d) == d

\* Lines 236-238: drop the marked rows and the to_delete column, reset_index.
RECURSIVE Keep(_)
Keep(d) ==
    IF d = << >> THEN << >>
    ELSE IF Head(d).to_delete THEN Keep(Tail(d))
    ELSE << Head(d) >> \o Keep(Tail(d))

DropColumn(r) ==
    [id |-> r.id, parent_file |-> r.parent_file, tmin |-> r.tmin,
     tmax |-> r.tmax, final_source |-> r.final_source,
     overlapping |-> r.overlapping, overlap_info |-> r.overlap_info,
     overlap_info_processed |-> r.overlap_info_processed]

Compacted(d) ==
    LET kept == Keep(d)
    IN  [i \in 1..Len(kept) |-> [DropColumn(kept[i]) EXCEPT !.id = i - 1]]

\* ------------------------------------------------------- initial tables
\* The table as filter_overlapping finds it: rows 0..n-1 of annotations.csv
\* (n <= MaxRows), the MaxDropped rows after them already dropped.  A row's
\* overlap field is NaN, or lists rows of its file that it meets, each with
\* the common sub-range, and dropped rows, in any order.  Labels and files
\* are only ever compared for equality, so the first row is fixed to the
\* first label and the first file.
Intervals == { iv \in Times \X Times : iv[1] <= iv[2] }

\* No run of process_all_data: its lists stay as they are.
NoLists ==
    /\ processed_signals = << >>
    /\ processed_labels = << >>
    /\ processed_splits = << >>
    /\ files_dict = << >>
    /\ disk = << >>
    /\ log = << >>
    /\ segment_rows = << >>

\* No EffAtModel.train: its locals stay as they are.
NoTrain ==
    /\ epoch = 0
    /\ best_accuracy = 0
    /\ epochs_without_improvement = 0
    /\ test_accs = << >>
    /\ saved_at = << >>

\* No EcossDataset object either.
NoRun == self = << >> /\ NoLists

Bases(n) ==
    { b \in [1..n -> [iv : Intervals, final_source : Labels, parent_file : Files]] :
        b[1].final_source = "x" /\ b[1].parent_file = "f1" }

Meets(a, b) == Max2(a[1], b[1]) <= Min2(a[2], b[2])

Common(a, b) == << Max2(a[1], b[1]), Min2(a[2], b[2]) >>

LiveRefs(base, i) ==
    { << j - 1, Common(base[i].iv, base[j].iv)[1], Common(base[i].iv, base[j].iv)[2] >> :
        j \in { k \in DOMAIN base : /\ k # i
                                    /\ base[k].parent_file = base[i].parent_file
                                    /\ Meets(base[i].iv, base[k].iv) } }

DroppedRefs(base, i) ==
    { << d, base[i].iv[1], base[i].iv[2] >> :
        d \in Len(base)..(Len(base) + MaxDropped - 1) }

\* Lists without repetition over C, of length 1..k.
RECURSIVE RefLists(_, _)
RefLists(C, k) ==
    IF k = 0 \/ C = {} THEN {}
    ELSE UNION { { << c >> } \cup { << c >> \o l : l \in RefLists(C \ {c}, k - 1) } :
                 c \in C }

RowsFor(base, i) ==
    LET raw(overlapping, info) ==
            [id |-> i - 1, parent_file |-> base[i].parent_file,
             tmin |-> base[i].iv[1], tmax |-> base[i].iv[2],
             final_source |-> base[i].final_source,
             overlapping |-> overlapping, overlap_info |-> info]
    IN  { raw(NaN, << >>) } \cup
        { raw(<< Len(l) >>, l) :
            l \in RefLists(LiveRefs(base, i) \cup DroppedRefs(base, i),
                           Len(base) - 1 + MaxDropped) }

RECURSIVE TablesUpTo(_, _)
TablesUpTo(base, k) ==
    IF k = 0 THEN { << >> }
    ELSE UNION { { Append(t, r) : r \in RowsFor(base, k) } :
                 t \in TablesUpTo(base, k - 1) }

\* The tables of n rows.
InitialTables(n) == UNION { TablesUpTo(base, n) : base \in Bases(n) }

Init ==
    /\ df0 \in UNION { InitialTables(n) : n \in 1..MaxRows }
    /\ df = df0
    /\ scan = << >>
    /\ pos = 1
    /\ refpos = 1
    /\ segments_to_delete = << >>
    /\ not_count = FALSE
    /\ pc = "start"
    /\ args = << >>
    /\ result = << >>
    /\ returned = FALSE
    /\ NoRun
    /\ NoTrain

\* Mutant: the generator yields every label twice.
iterrows_twice(d) == [i \in 1..(2 * Len(d)) |-> d[((i - 1) % Len(d)) + 1].id]

\* self.df.iterrows(): the index labels in row order.
iterrows(d) == [i \in 1..Len(d) |-> d[i].id]

\* Mutant: the generator follows self.df and yields the appended rows too.
YieldedLive(s, d) == iterrows(d)

\* The labels the generator created at line 199 yields: s are the labels of
\* the DataFrame object it was created on, d is self.df now.  Line 231
\* rebinds self.df to a new object and leaves the generator's object as it
\* was, so the generator goes on yielding s.
Yielded(s, d) == s

\* Row being evaluated and the reference being looked at.
eval_idx == Yielded(scan, df)[pos]
EvalRow == Loc(df, eval_idx)
CurRef == EvalRow.overlap_info_processed[refpos]

\* Lines 192-199: add the two columns and start iterating.  iterrows() walks
\* the index of the DataFrame object it was called on; line 231 rebinds
\* self.df to a new object, so the walk is over the labels present here.
StartPass ==
    /\ pc = "start"
    /\ LET info == _extract_overlapping_info(df)
       IN  df' = [i \in 1..Len(df) |->
                    [id |-> df[i].id, parent_file |-> df[i].parent_file,
                     tmin |-> df[i].tmin, tmax |-> df[i].tmax,
                     final_source |-> df[i].final_source,
                     overlapping |-> df[i].overlapping,
                     overlap_info |-> df[i].overlap_info,
                     overlap_info_processed |-> info[i],
                     to_delete |-> FALSE]]
    /\ scan' = iterrows(df)
    /\ pos' = 1
    /\ pc' = "scan"
    /\ UNCHANGED << callVars, runVars, trainVars, df0, refpos, segments_to_delete, not_count >>

\* Lines 200-204: the row is not looked at.
SkipRow ==
    /\ pc = "scan"
    /\ pos <= Len(Yielded(scan, df))
    /\ ~(eval_idx \in Index(df) /\ ~isna(EvalRow.overlapping))
    /\ not_count' = FALSE
    /\ pos' = pos + 1
    /\ UNCHANGED << callVars, runVars, trainVars, df, df0, scan, refpos, segments_to_delete, pc >>

\* Lines 200-206: the row has an overlap field; start on its references.
BeginRow ==
    /\ pc = "scan"
    /\ pos <= Len(Yielded(scan, df))
    /\ eval_idx \in Index(df)
    /\ ~isna(EvalRow.overlapping)
    /\ not_count' = FALSE
    /\ segments_to_delete' = << >>
    /\ refpos' = 1
    /\ pc' = "refs"
    /\ UNCHANGED << callVars, runVars, trainVars, df, df0, scan, pos >>

\* Lines 207-208: the referenced label is not in the table.
RefNotInIndex ==
    /\ pc = "refs"
    /\ refpos <= Len(EvalRow.overlap_info_processed)
    /\ CurRef[1] \notin Index(df)
    /\ refpos' = refpos + 1
    /\ UNCHANGED << callVars, runVars, trainVars, df, df0, scan, pos, segments_to_delete,
                    not_count, pc >>

\* Lines 209-211: different classes.
RefDifferentClass ==
    /\ pc = "refs"
    /\ refpos <= Len(EvalRow.overlap_info_processed)
    /\ CurRef[1] \in Index(df)
    /\ EvalRow.final_source # Loc(df, CurRef[1]).final_source
    /\ segments_to_delete' = Append(segments_to_delete, << CurRef[2], CurRef[3] >>)
    /\ refpos' = refpos + 1
    /\ UNCHANGED << callVars, runVars, trainVars, df, df0, scan, pos, not_count, pc >>

\* Lines 212-222: same class.
RefSameClass ==
    /\ pc = "refs"
    /\ refpos <= Len(EvalRow.overlap_info_processed)
    /\ CurRef[1] \in Index(df)
    /\ EvalRow.final_source = Loc(df, CurRef[1]).final_source
    /\ LET overlap_idx == CurRef[1]
           t_eval == << EvalRow.tmin, EvalRow.tmax >>
           t_overlap == << Loc(df, overlap_idx).tmin, Loc(df, overlap_idx).tmax >>
           superpos == _check_superposition(t_eval, t_overlap)
           handled == _handle_superposition(df, eval_idx, overlap_idx, superpos)
       IN  /\ df' = handled[1]
           /\ not_count' = handled[2]
           /\ IF handled[2]
                THEN pc' = "scan" /\ pos' = pos + 1 /\ refpos' = refpos
                ELSE pc' = "refs" /\ pos' = pos /\ refpos' = refpos + 1
    /\ UNCHANGED << callVars, runVars, trainVars, df0, scan, segments_to_delete >>

\* Lines 223-233: the references are exhausted; split the row.
DivideRow ==
    /\ pc = "refs"
    /\ refpos > Len(EvalRow.overlap_info_processed)
    /\ LET final_segments ==
               _divide_labels(<< EvalRow.tmin, EvalRow.tmax >>, segments_to_delete)
       IN  df' = AtToDelete(AppendSegments(df, eval_idx, final_segments),
                            eval_idx, TRUE)
    /\ pos' = pos + 1
    /\ pc' = "scan"
    /\ UNCHANGED << callVars, runVars, trainVars, df0, scan, refpos, segments_to_delete,
                    not_count >>

\* Lines 235-238: the generator is exhausted.
Compact ==
    /\ pc = "scan"
    /\ pos > Len(Yielded(scan, df))
    /\ df' = Compacted(df)
    /\ pc' = "done"
    /\ UNCHANGED << callVars, runVars, trainVars, df0, scan, pos, refpos, segments_to_delete,
                    not_count >>

Next ==
    \/ StartPass
    \/ SkipRow
    \/ BeginRow
    \/ RefNotInIndex
    \/ RefDifferentClass
    \/ RefSameClass
    \/ DivideRow
    \/ Compact

Spec == Init /\ [][Next]_vars

\* ===================================================== filter_overlapping
\* Vocabulary of the properties below.
Rows(d) == { d[i] : i \in 1..Len(d) }

RefsOf(r) == { r.overlap_info[k] : k \in 1..Len(r.overlap_info) }

\* The half-open ranges [tmin, tmax) of two rows share a point.
Overlap(r1, r2) == Max2(r1.tmin, r2.tmin) < Min2(r1.tmax, r2.tmax)

\* Every overlap of two rows of one file is recorded on both rows, with the
\* common sub-range.
RefsComplete(d) ==
    \A i, j \in 1..Len(d) :
        (i # j /\ d[i].parent_file = d[j].parent_file /\ Overlap(d[i], d[j]))
            => << d[j].id, Max2(d[i].tmin, d[j].tmin), Min2(d[i].tmax, d[j].tmax) >>
                   \in RefsOf(d[i])

\* The <<tmin, tmax>> of the rows of d that carry label l, as a set.
Spans(d, l) == { << r.tmin, r.tmax >> : r \in { q \in Rows(d) : q.final_source = l } }

\* C1: when the pass has finished on a table whose overlap references record
\* every overlap of two rows of one file (both directions, true sub-range), no
\* two surviving rows of one file with different labels overlap.
C1_NoCrossLabelOverlap ==
    (pc = "done" /\ RefsComplete(df0)) =>
        \A i, j \in 1..Len(df) :
            (i # j /\ df[i].parent_file = df[j].parent_file
                   /\ df[i].final_source # df[j].final_source)
                => ~Overlap(df[i], df[j])

\* Two rows of one file with different labels overlapped, every overlap was
\* recorded, and rows of both labels survive the pass.
C1_Witness ==
    /\ pc = "done"
    /\ RefsComplete(df0)
    /\ \E i, j \in 1..Len(df0) :
          /\ df0[i].parent_file = df0[j].parent_file
          /\ df0[i].final_source # df0[j].final_source
          /\ Overlap(df0[i], df0[j])
    /\ \E r, q \in Rows(df) :
          r.parent_file = q.parent_file /\ r.final_source # q.final_source

\* Number of rows of d that carry label l.
NumRows(d, l) == Cardinality({ i \in 1..Len(d) : d[i].final_source = l })

\* The parts of row a outside the sub-range [s, e].
Outside(a, s, e) ==
    (IF a.tmin < s THEN { << a.tmin, s >> } ELSE {}) \cup
    (IF e < a.tmax THEN { << e, a.tmax >> } ELSE {})

\* The reference row a holds to row b when it records their common sub-range.
RefTo(a, b) == << b.id, Max2(a.tmin, b.tmin), Min2(a.tmax, b.tmax) >>

\* The table was two rows of one file.
TwoRows == Len(df0) = 2 /\ df0[1].parent_file = df0[2].parent_file

\* The rows of label l that the pass leaves are exactly the spans S.
Leaves(l, S) == Spans(df, l) = S /\ NumRows(df, l) = Cardinality(S)

\* The row is not zero-length.
Proper(r) == r.tmin < r.tmax

\* C2 as claimed: two rows A, B of one file with different labels, B inside A
\* and the sub-range recorded: the pass leaves the parts of A outside the
\* sub-range, with A's label, and B with its bounds and label.  (Stated for
\* rows that are not zero-length and refer to nothing but each other.)
C2_Original ==
    (pc = "done" /\ TwoRows) =>
        \A a, b \in Rows(df0) :
            (/\ a.final_source # b.final_source
             /\ Proper(a) /\ Proper(b)
             /\ a.tmin <= b.tmin /\ b.tmax <= a.tmax
             /\ a.overlap_info = << RefTo(a, b) >>
             /\ RefsOf(b) \subseteq { RefTo(b, a) })
                => /\ Leaves(a.final_source, Outside(a, b.tmin, b.tmax))
                   /\ Leaves(b.final_source, { << b.tmin, b.tmax >> })

\* C2 amended: for two rows of one file with different labels, whatever their
\* geometry, a row whose overlap field records just the common sub-range is
\* replaced by its parts outside that sub-range, with its label; a row whose
\* overlap field is null is left with its bounds and label.  (B inside A, both
\* recording the overlap: B is removed.)
C2_ExcisedWhereRecorded ==
    (pc = "done" /\ TwoRows) =>
        \A a, b \in Rows(df0) :
            (a.final_source # b.final_source) =>
                /\ a.overlap_info = << RefTo(a, b) >>
                      => Leaves(a.final_source,
                                Outside(a, Max2(a.tmin, b.tmin), Min2(a.tmax, b.tmax)))
                /\ isna(a.overlapping)
                      => Leaves(a.final_source, { << a.tmin, a.tmax >> })

\* B strictly inside A, recorded on A only: A is left in two parts, B whole.
C2_Witness ==
    /\ pc = "done"
    /\ TwoRows
    /\ \E a, b \in Rows(df0) :
          /\ a.final_source # b.final_source
          /\ a.tmin < b.tmin /\ b.tmin < b.tmax /\ b.tmax < a.tmax
          /\ a.overlap_info = << RefTo(a, b) >>
          /\ isna(b.overlapping)
          /\ Leaves(a.final_source, { << a.tmin, b.tmin >>, << b.tmax, a.tmax >> })
          /\ Leaves(b.final_source, { << b.tmin, b.tmax >> })

\* C3 as claimed: two rows A, B of one file with the same label, A containing
\* B, each referring to the other: the pass leaves one row, with A's bounds.
\* (Stated for rows that are not zero-length and refer to nothing but each
\* other.)
C3_Original ==
    (pc = "done" /\ TwoRows) =>
        \A a, b \in Rows(df0) :
            (/\ a.id # b.id
             /\ a.final_source = b.final_source
             /\ Proper(a) /\ Proper(b)
             /\ a.tmin <= b.tmin /\ b.tmax <= a.tmax
             /\ a.overlap_info = << RefTo(a, b) >>
             /\ b.overlap_info = << RefTo(b, a) >>)
                => Leaves(a.final_source, { << a.tmin, a.tmax >> })

\* C3 amended: the same when B starts strictly after A (A.tmin < B.tmin),
\* whichever of the two comes first in row order.
C3_ContainedDeleted ==
    (pc = "done" /\ TwoRows) =>
        \A a, b \in Rows(df0) :
            (/\ a.id # b.id
             /\ a.final_source = b.final_source
             /\ a.tmin < b.tmin /\ b.tmax <= a.tmax
             /\ RefTo(a, b) \in RefsOf(a) /\ RefTo(b, a) \in RefsOf(b))
                => Leaves(a.final_source, { << a.tmin, a.tmax >> })

\* A is the second row and strictly contains B, and one row with A's bounds
\* is what the pass leaves.
C3_Witness ==
    /\ pc = "done"
    /\ TwoRows
    /\ \E a, b \in Rows(df0) :
          /\ a.id = 1 /\ b.id = 0
          /\ a.final_source = b.final_source
          /\ a.tmin < b.tmin /\ b.tmin < b.tmax /\ b.tmax < a.tmax
          /\ RefTo(a, b) \in RefsOf(a) /\ RefTo(b, a) \in RefsOf(b)
          /\ Len(df) = 1
          /\ df[1].tmin = a.tmin /\ df[1].tmax = a.tmax

\* What a row is to its annotator: bounds, label and file.
Annotation(r) ==
    [tmin |-> r.tmin, tmax |-> r.tmax, final_source |-> r.final_source,
     parent_file |-> r.parent_file]

RECURSIVE NullRows(_)
\* The annotations of the rows of d whose overlap field is null, in row order.
NullRows(d) ==
    IF d = << >> THEN << >>
    ELSE IF isna(Head(d).overlapping)
           THEN << Annotation(Head(d)) >> \o NullRows(Tail(d))
           ELSE NullRows(Tail(d))

\* C4: a row whose overlap field is null keeps tmin, tmax, label and parent
\* file, at every point of the pass and in the table the pass leaves, also
\* when other rows hold references that point at it.
C4_NullOverlapUnchanged == NullRows(df) = NullRows(df0)

\* The pass has resolved a same-label partial overlap against a row whose
\* overlap field is null, and has finished.
C4_Witness ==
    /\ pc = "done"
    /\ \E a, b \in Rows(df0) :
          /\ isna(b.overlapping)
          /\ RefTo(a, b) \in RefsOf(a)
          /\ a.final_source = b.final_source
          /\ Overlap(a, b)
          /\ _check_superposition(<< a.tmin, a.tmax >>, << b.tmin, b.tmax >>)
                \in { STARTS_BEFORE_AND_OVERLAPS, STARTS_AFTER_AND_OVERLAPS }

\* C5 as claimed: every row the pass leaves has tmin < tmax.
C5_Original ==
    pc = "done" => \A r \in Rows(df) : r.tmin < r.tmax

\* C5 amended: every row appended by a split has tmin < tmax, during the pass
\* and after it; a row whose overlap field is null is passed through with the
\* bounds it came with, so the rows the pass leaves with tmin >= tmax are
\* exactly the null-overlap rows that came with tmin >= tmax.
C5_SplitRowsProper ==
    /\ pc \in { "scan", "refs" } =>
          \A i \in 1..Len(df) : i > Len(df0) => df[i].tmin < df[i].tmax
    /\ pc = "done" =>
          /\ \A r \in Rows(df) : ~isna(r.overlapping) => r.tmin < r.tmax
          /\ { Annotation(r) : r \in { q \in Rows(df) : q.tmin >= q.tmax } }
               = { Annotation(r) : r \in { q \in Rows(df0) :
                                             isna(q.overlapping) /\ q.tmin >= q.tmax } }

\* A row was excised down to nothing and left no piece, while another row was
\* split into pieces.
C5_Witness ==
    /\ pc = "done"
    /\ \E a \in Rows(df0) :
          /\ ~isna(a.overlapping) /\ Proper(a)
          /\ NumRows(df, a.final_source) = 0
    /\ \E r \in Rows(df) : ~isna(r.overlapping)

\* C9 as claimed: a reference whose target was not a row of the table when the
\* pass started is skipped: the step that looks at it changes no row, records
\* no excise range and deletes nothing.  (Stated for evaluated rows that are
\* not zero-length.)
C9_DanglingSkipped ==
    [][ (/\ pc = "refs"
         /\ refpos <= Len(EvalRow.overlap_info_processed)
         /\ Proper(EvalRow)
         /\ CurRef[1] \notin Index(df0))
            => (/\ df' = df
                /\ segments_to_delete' = segments_to_delete
                /\ not_count' = not_count) ]_vars

\* C10 as claimed: every row appended during the pass is visited by the scan;
\* when the scan ends, every row of the table has been evaluated.
C10_Original ==
    (pc = "scan" /\ pos > Len(Yielded(scan, df))) =>
        Index(df) \subseteq { Yielded(scan, df)[i] : i \in 1..Len(Yielded(scan, df)) }

\* C10 amended: the rows are evaluated in original row order, and the scan is
\* over the rows the table had when the pass started: the row evaluated at
\* position k is the k-th original row, and no appended row is visited.
C10_ScanOfOriginalRows ==
    (pc \in { "scan", "refs" } /\ pos <= Len(Yielded(scan, df))) =>
        /\ pos <= Len(df0)
        /\ eval_idx = df0[pos].id
        /\ PosOf(df, eval_idx) = pos

\* The scan has ended and the table holds appended rows it never visited.
C10_Witness ==
    /\ pc = "scan"
    /\ pos > Len(Yielded(scan, df))
    /\ Len(df) > Len(df0)
    /\ \E i \in 1..Len(df) :
          df[i].id \notin { Yielded(scan, df)[k] : k \in 1..Len(Yielded(scan, df)) }

\* ============================================== the helpers on their own
\* No table: the variables of the pass stay as they are.
NoPass ==
    /\ df = << >>
    /\ df0 = << >>
    /\ scan = << >>
    /\ pos = 1
    /\ refpos = 1
    /\ segments_to_delete = << >>
    /\ not_count = FALSE
    /\ pc = "idle"

\* Every pair of times, inverted pairs included.
Pairs == Times \X Times

\* Lists over S of length 0..k.
RECURSIVE ListsUpTo(_, _)
ListsUpTo(S, k) ==
    IF k = 0 THEN { << >> }
    ELSE LET shorter == ListsUpTo(S, k - 1)
         IN  shorter \cup { Append(l, x) : l \in shorter, x \in S }

\* --- _divide_labels(event, segments)
InitDivide ==
    /\ NoPass
    /\ NoRun
    /\ NoTrain
    /\ args \in [event : Pairs, segments : ListsUpTo(Intervals, MaxSegs)]
    /\ result = << >>
    /\ returned = FALSE

CallDivideLabels ==
    /\ ~returned
    /\ result' = _divide_labels(args.event, args.segments)
    /\ returned' = TRUE
    /\ UNCHANGED << passVars, runVars, trainVars, args >>

SpecDivide == InitDivide /\ [][CallDivideLabels]_vars

\* The unit cells [k, k+1] that lie in the range r.
Cells(r) == { k \in 0..(MaxT - 1) : r[1] <= k /\ k + 1 <= r[2] }

CellsOf(ranges) == UNION { Cells(ranges[i]) : i \in 1..Len(ranges) }

\* C6 as claimed: _divide_labels returns the surviving pieces of the event: an
\* ascending list of pairwise-disjoint ranges, each inside [tmin, tmax], whose
\* union is the event minus the union of the excise ranges.  (Stated for
\* events and excise ranges that are not zero-length.)
C6_DivideExact ==
    (/\ returned
     /\ args.event[1] < args.event[2]
     /\ \A i \in 1..Len(args.segments) : args.segments[i][1] < args.segments[i][2])
        => /\ \A i \in 1..(Len(result) - 1) : result[i][2] <= result[i + 1][1]
           /\ \A i \in 1..Len(result) :
                 /\ args.event[1] <= result[i][1]
                 /\ result[i][1] <= result[i][2]
                 /\ result[i][2] <= args.event[2]
           /\ CellsOf(result) = Cells(args.event) \ CellsOf(args.segments)

\* The list l in the order p, a permutation of its positions.
Reordered(l, p) == [i \in 1..Len(l) |-> l[p[i]]]

\* The list l with x put after its first k elements.
InsertAt(l, k, x) == SubSeq(l, 1, k) \o << x >> \o SubSeq(l, k + 1, Len(l))

\* The range s lies inside the range t.
Inside(s, t) == t[1] <= s[1] /\ s[2] <= t[2]

\* C13: the result of _divide_labels is the same for every order of the excise
\* ranges, and stays the same when a range lying inside one of the excise
\* ranges is added at any position; event [0,10] with excises [[2,8],[4,6]]
\* gives [[0,2],[8,10]].
C13_OrderAndAbsorption ==
    /\ _divide_labels(<< 0, 10 >>, << << 2, 8 >>, << 4, 6 >> >>)
           = << << 0, 2 >>, << 8, 10 >> >>
    /\ returned =>
          /\ \A p \in Permutations(1..Len(args.segments)) :
                _divide_labels(args.event, Reordered(args.segments, p)) = result
          /\ \A inner \in Intervals :
                (\E i \in 1..Len(args.segments) : Inside(inner, args.segments[i]))
                    => \A k \in 0..Len(args.segments) :
                          _divide_labels(args.event,
                                         InsertAt(args.segments, k, inner)) = result

\* Two excise ranges given out of order, the second inside the first, have
\* left the pieces the first alone leaves.
C13_Witness ==
    /\ returned
    /\ Len(args.segments) = 2
    /\ args.segments[1] # args.segments[2]
    /\ ~SegLeq(args.segments[1], args.segments[2])
    /\ Inside(args.segments[2], args.segments[1])
    /\ result # << >>
    /\ result = _divide_labels(args.event, << args.segments[1] >>)

\* C14: every range _divide_labels returns has start < stop, whatever the
\* event (zero-length and inverted events included) and the excise ranges.
C14_PiecesProper ==
    returned => \A i \in 1..Len(result) : result[i][1] < result[i][2]

\* An event with tmin >= tmax has returned a piece.
C14_Witness ==
    /\ returned
    /\ args.event[1] >= args.event[2]
    /\ args.segments # << >>
    /\ result # << >>

\* --- _check_superposition(segment1, segment2)
InitClassify ==
    /\ NoPass
    /\ NoRun
    /\ NoTrain
    /\ args \in [segment1 : Pairs, segment2 : Pairs]
    /\ result = << >>
    /\ returned = FALSE

CallCheckSuperposition ==
    /\ ~returned
    /\ result' = << _check_superposition(args.segment1, args.segment2) >>
    /\ returned' = TRUE
    /\ UNCHANGED << passVars, runVars, trainVars, args >>

SpecClassify == InitClassify /\ [][CallCheckSuperposition]_vars

\* The four rules of the classifier, as the specification numbers them.
Rule1(a, b) == a[1] <= b[1] /\ b[1] <= a[2] /\ a[2] < b[2]
Rule2(a, b) == b[1] <= a[1] /\ a[1] <= b[2] /\ b[2] < a[2]
Rule3(a, b) == a[1] <= b[1] /\ a[2] >= b[2]
Rule4(a, b) == b[1] <= a[1] /\ b[2] >= a[2]

\* C7: _check_superposition returns the case of the first rule that matches,
\* in the order 1, 2, 3, 4, and NO_SUPERPOSITION when none does: one of the
\* five cases for every pair, boundary-equal pairs included.
C7_FirstMatchingRule ==
    returned =>
        LET a == args.segment1
            b == args.segment2
            r == result[1]
        IN  /\ r \in SuperpositionType
            /\ (r = STARTS_BEFORE_AND_OVERLAPS) <=> Rule1(a, b)
            /\ (r = STARTS_AFTER_AND_OVERLAPS) <=> (~Rule1(a, b) /\ Rule2(a, b))
            /\ (r = CONTAINS) <=> (~Rule1(a, b) /\ ~Rule2(a, b) /\ Rule3(a, b))
            /\ (r = IS_CONTAINED) <=>
                   (~Rule1(a, b) /\ ~Rule2(a, b) /\ ~Rule3(a, b) /\ Rule4(a, b))
            /\ (r = NO_SUPERPOSITION) <=>
                   (~Rule1(a, b) /\ ~Rule2(a, b) /\ ~Rule3(a, b) /\ ~Rule4(a, b))

\* A boundary-equal pair that rules 1 and 4 both match has been classified by
\* rule 1.
C7_Witness ==
    /\ returned
    /\ args.segment1[1] < args.segment1[2]
    /\ Rule1(args.segment1, args.segment2)
    /\ Rule4(args.segment1, args.segment2)
    /\ result = << STARTS_BEFORE_AND_OVERLAPS >>

Mirror(r) ==
    CASE r = CONTAINS -> IS_CONTAINED
      [] r = IS_CONTAINED -> CONTAINS
      [] r = STARTS_BEFORE_AND_OVERLAPS -> STARTS_AFTER_AND_OVERLAPS
      [] r = STARTS_AFTER_AND_OVERLAPS -> STARTS_BEFORE_AND_OVERLAPS
      [] OTHER -> NO_SUPERPOSITION

\* C8 as claimed: for intervals a, b with min < max each, the classification of
\* (b, a) is the mirror of the classification of (a, b).
C8_Original ==
    (/\ returned
     /\ args.segment1[1] < args.segment1[2]
     /\ args.segment2[1] < args.segment2[2])
        => _check_superposition(args.segment2, args.segment1) = Mirror(result[1])

\* C8 amended: the same for a # b; for a = b both orders give CONTAINS.
C8_MirrorUnlessEqual ==
    (/\ returned
     /\ args.segment1[1] < args.segment1[2]
     /\ args.segment2[1] < args.segment2[2])
        => IF args.segment1 = args.segment2
             THEN /\ result[1] = CONTAINS
                  /\ _check_superposition(args.segment2, args.segment1) = CONTAINS
             ELSE _check_superposition(args.segment2, args.segment1) = Mirror(result[1])

\* Two different intervals, a starting before b and overlapping it.
C8_Witness ==
    /\ returned
    /\ args.segment1[1] < args.segment2[1]
    /\ args.segment2[1] < args.segment1[2]
    /\ args.segment1[2] < args.segment2[2]
    /\ result = << STARTS_BEFORE_AND_OVERLAPS >>
    /\ _check_superposition(args.segment2, args.segment1) = STARTS_AFTER_AND_OVERLAPS

\* ======================================================= segmentation
\* Bounds of the signals and of the configuration.
MaxLen == 5
MaxDuration == 2

Samples == {0, 1}
Rates == {1, 2}
PadModes == {"zeros", "white_noise", "reflect"}
\* Values of saving_on_disk: "" stands for the falsy values (False, None, ""),
\* "True" for the boolean the signature of __init__ announces.
SavingModes == {"", "pickle", "wav", "True"}

\* The sequences over S of length n.
SeqsOf(S, n) == [1..n -> S]

Signals == UNION { SeqsOf(Samples, n) : n \in 0..MaxLen }

\* __init__: the fields the segmentation reads.
EcossDataset(pad_mode, sr, duration, saving_on_disk) ==
    [pad_mode |-> pad_mode, sr |-> sr, duration |-> duration,
     segment_length |-> duration * sr, saving_on_disk |-> saving_on_disk]

Objects ==
    { EcossDataset(m, sr, d, sv) :
        m \in PadModes, sr \in Rates, d \in 1..MaxDuration, sv \in SavingModes }

CeilDiv(a, b) == (a + b - 1) \div b

\* librosa.resample: a signal of ceil(len * target_sr / orig_sr) samples; the
\* interpolated values are the library's.
resample(signal, orig_sr, target_sr) ==
    SeqsOf(Samples, CeilDiv(Len(signal) * target_sr, orig_sr))

Zeros(n) == [i \in 1..n |-> 0]

zero_padding(signal, delta_start, delta_end) ==
    Zeros(delta_start) \o signal \o Zeros(delta_end)

\* The values a noise sample can take: draws of mean 0 and deviation
\* np.std(signal) / 10, which is 0 for a constant signal, so that every draw
\* is 0 then.  (The deviation of an empty signal is not a number: any value.)
Noise(signal) ==
    IF signal # << >> /\ \A i \in 1..Len(signal) : signal[i] = signal[1]
      THEN {0} ELSE Samples

\* The noise is random: every draw is a possible outcome.
white_noise_padding(signal, delta_start, delta_end) ==
    { white_noise_start \o signal \o white_noise_end :
        white_noise_start \in SeqsOf(Noise(signal), delta_start),
        white_noise_end \in SeqsOf(Noise(signal), delta_end) }

\* What a call leaves: the segments it returned, or exit(1).
Returned(segments) == [exit |-> FALSE, segments |-> segments]
Exited == [exit |-> TRUE, segments |-> << >>]

\* Mutant: the same amount of padding on both sides.
make_padding_same_end(segment_length, pad_mode, signal) ==
    LET delta == segment_length - Len(signal)
        delta_start == delta \div 2
    IN  IF pad_mode = "zeros"
          THEN { Returned(<< zero_padding(signal, delta_start, delta_start) >>) }
        ELSE IF pad_mode = "white_noise"
          THEN { Returned(<< segment >>) :
                 segment \in white_noise_padding(signal, delta_start, delta_start) }
        ELSE { Exited }

\* Mutant: an unknown pad mode pads with zeros.
make_padding_default_zeros(segment_length, pad_mode, signal) ==
    LET delta == segment_length - Len(signal)
        delta_start == delta \div 2
        delta_end == IF delta % 2 = 0 THEN delta_start ELSE (delta \div 2) + 1
    IN  IF pad_mode = "white_noise"
          THEN { Returned(<< segment >>) :
                 segment \in white_noise_padding(signal, delta_start, delta_end) }
        ELSE { Returned(<< zero_padding(signal, delta_start, delta_end) >>) }

\* The outcomes of make_padding.
make_padding(segment_length, pad_mode, signal) ==
    LET delta == segment_length - Len(signal)
        delta_start == delta \div 2
        delta_end == IF delta % 2 = 0 THEN delta_start ELSE (delta \div 2) + 1
    IN  IF pad_mode = "zeros"
          THEN { Returned(<< zero_padding(signal, delta_start, delta_end) >>) }
        ELSE IF pad_mode = "white_noise"
          THEN { Returned(<< segment >>) :
                 segment \in white_noise_padding(signal, delta_start, delta_end) }
        ELSE { Exited }

\* Mutant: the trailing remainder is returned as a last, shorter segment.
make_segments_with_remainder(segment_length, signal) ==
    LET n_segments == CeilDiv(Len(signal), segment_length)
    IN  [i \in 1..n_segments |->
            SubSeq(signal, (i - 1) * segment_length + 1,
                   Min2(i * segment_length, Len(signal)))]

make_segments(segment_length, signal) ==
    LET n_segments == Len(signal) \div segment_length
    IN  [i \in 1..n_segments |->
            SubSeq(signal, (i - 1) * segment_length + 1, i * segment_length)]

\* The outcomes of process_data on the signal that reaches line 377.
Segmented(segment_length, pad_mode, signal) ==
    IF Len(signal) < segment_length
      THEN make_padding(segment_length, pad_mode, signal)
      ELSE { Returned(make_segments(segment_length, signal)) }

\* The signal after lines 373-374.
Resampled(sr, signal, original_sr) ==
    IF original_sr # sr THEN resample(signal, original_sr, sr) ELSE { signal }

\* The outcomes of process_data, each with the signal that was segmented.
process_data(sr, segment_length, pad_mode, signal, original_sr) ==
    UNION { { [signal |-> r, exit |-> out.exit, segments |-> out.segments] :
              out \in Segmented(segment_length, pad_mode, r) } :
            r \in Resampled(sr, signal, original_sr) }

\* --- process_data(signal, original_sr)
\* filter_lower_sr has dropped the files sampled below self.sr.
InitSegment ==
    /\ NoPass
    /\ NoLists
    /\ NoTrain
    /\ self \in Objects
    /\ args \in { a \in [signal : Signals, original_sr : Rates] :
                    a.original_sr >= self.sr }
    /\ result = << >>
    /\ returned = FALSE

CallProcessData ==
    /\ ~returned
    /\ \E out \in process_data(self.sr, self.segment_length, self.pad_mode,
                                args.signal, args.original_sr) :
          result' = out
    /\ returned' = TRUE
    /\ UNCHANGED << passVars, runVars, trainVars, args >>

SpecSegment == InitSegment /\ [][CallProcessData]_vars

RECURSIVE Flatten(_)
Flatten(ss) == IF ss = << >> THEN << >> ELSE Head(ss) \o Flatten(Tail(ss))

\* C11: a signal of length L >= T gives exactly floor(L/T) segments, each of
\* length T, whose concatenation is the first T*floor(L/T) samples of the
\* signal; the remainder is dropped.  The signal is the one that reaches the
\* segmentation: the argument itself when original_sr equals self.sr.
C11_FullSegments ==
    (returned /\ Len(result.signal) >= self.segment_length) =>
        LET L == Len(result.signal)
            T == self.segment_length
        IN  /\ ~result.exit
            /\ args.original_sr = self.sr => result.signal = args.signal
            /\ Len(result.segments) = L \div T
            /\ \A i \in 1..Len(result.segments) : Len(result.segments[i]) = T
            /\ Flatten(result.segments) = SubSeq(result.signal, 1, T * (L \div T))

\* A signal with a remainder has been cut into two segments.
C11_Witness ==
    /\ returned
    /\ args.original_sr = self.sr
    /\ Len(args.signal) % self.segment_length # 0
    /\ Len(result.segments) = 2
    /\ Flatten(result.segments) # args.signal

\* C12: with pad mode zeros, a signal of length L < T gives exactly one
\* segment of length T: floor((T-L)/2) zeros, the signal, ceil((T-L)/2) zeros.
C12_ZeroPadded ==
    (/\ returned
     /\ Len(result.signal) < self.segment_length
     /\ self.pad_mode = "zeros") =>
        LET L == Len(result.signal)
            T == self.segment_length
            before == (T - L) \div 2
            after == CeilDiv(T - L, 2)
        IN  /\ ~result.exit
            /\ Len(result.segments) = 1
            /\ Len(result.segments[1]) = T
            /\ \A i \in 1..before : result.segments[1][i] = 0
            /\ \A i \in (T - after + 1)..T : result.segments[1][i] = 0
            /\ SubSeq(result.segments[1], before + 1, before + L) = result.signal

\* A signal with no zero sample has been padded by an odd amount.
C12_Witness ==
    /\ returned
    /\ self.pad_mode = "zeros"
    /\ args.original_sr = self.sr
    /\ Len(args.signal) > 0
    /\ \A i \in 1..Len(args.signal) : args.signal[i] # 0
    /\ (self.segment_length - Len(args.signal)) % 2 = 1
    /\ self.segment_length - Len(args.signal) > 1
    /\ Len(result.segments) = 1

\* ================================================ the raw overlap field
\* A string is the list of its characters; the text of an overlap field is
\* held as the list str.split(",") makes of it, which determines the text:
\* its tokens are the comma-free stretches, the last one empty when the text
\* ends with a comma.
MaxTokens == 4

Digits == {"0", "1", "2"}

\* Tokens a field is made of: empty, an index token, an index token with no
\* integer, a time, a time that is not a number, a bare number.
Tokens ==
    { << >>,
      << "i", " ", "1" >>,
      << "i" >>,
      << "s", ":", "2" >>,
      << "s", ":", "a" >>,
      << "1" >> }

RawFields == UNION { SeqsOf(Tokens, n) : n \in 1..MaxTokens }

\* str.split(sep) for a one-character sep: the stretches between separators.
RECURSIVE SplitOn(_, _, _)
SplitOn(str, sep, current) ==
    IF str = << >> THEN << current >>
    ELSE IF Head(str) = sep
      THEN << current >> \o SplitOn(Tail(str), sep, << >>)
    ELSE SplitOn(Tail(str), sep, Append(current, Head(str)))

\* str.split(): the words between runs of whitespace.
split(str) == SelectSeq(SplitOn(str, " ", << >>), LAMBDA w : w # << >>)

isdigit(word) == word # << >> /\ \A i \in 1..Len(word) : word[i] \in Digits

DigitValue(c) == CASE c = "0" -> 0 [] c = "1" -> 1 [] c = "2" -> 2

\* int(word) for a word of digits.
RECURSIVE int(_)
int(word) ==
    IF word = << >> THEN 0
    ELSE 10 * int(SubSeq(word, 1, Len(word) - 1)) + DigitValue(word[Len(word)])

\* str.strip()
RECURSIVE lstrip(_)
lstrip(str) ==
    IF str # << >> /\ Head(str) = " " THEN lstrip(Tail(str)) ELSE str

RECURSIVE rstrip(_)
rstrip(str) ==
    IF str # << >> /\ str[Len(str)] = " "
      THEN rstrip(SubSeq(str, 1, Len(str) - 1)) ELSE str

strip(str) == rstrip(lstrip(str))

\* float(str) succeeds: over these characters, on digits with blanks around.
IsFloat(str) == isdigit(strip(str))

float(str) == int(strip(str))

\* x.split(':')[-1]
AfterColon(x) ==
    LET parts == SplitOn(x, ":", << >>) IN parts[Len(parts)]

\* [overlapping_str[i:i + 3] for i in range(0, len(overlapping_str), 3)]
RECURSIVE Chunks(_)
Chunks(l) ==
    IF l = << >> THEN << >>
    ELSE IF Len(l) <= 3 THEN << l >>
    ELSE << SubSeq(l, 1, 3) >> \o Chunks(SubSeq(l, 4, Len(l)))

Raised(error) == [raised |-> error, value |-> << >>]
Value(v) == [raised |-> "", value |-> v]

\* The body of the for loop of lines 723-727 on one sublist: the tuple, or
\* the exception the first failing line raises.
ParseTriple(x) ==
    LET ints == SelectSeq(split(x[1]), isdigit)
    IN  IF ints = << >> THEN Raised("IndexError")
        ELSE IF Len(x) < 2 THEN Raised("IndexError")
        ELSE IF ~IsFloat(AfterColon(x[2])) THEN Raised("ValueError")
        ELSE IF Len(x) < 3 THEN Raised("IndexError")
        ELSE IF ~IsFloat(AfterColon(x[3])) THEN Raised("ValueError")
        ELSE Value(<< int(ints[1]), float(AfterColon(x[2])),
                      float(AfterColon(x[3])) >>)

RECURSIVE ParseAll(_, _)
ParseAll(divided_list, overlap_info) ==
    IF divided_list = << >> THEN Value(overlap_info)
    ELSE LET parsed == ParseTriple(Head(divided_list))
         IN  IF parsed.raised # "" THEN parsed
             ELSE ParseAll(Tail(divided_list), Append(overlap_info, parsed.value))

\* The argument is the text as split(",") lists it; [:-1] drops the last
\* token.
_parse_overlapping_field(overlapping_str) ==
    ParseAll(Chunks(SubSeq(overlapping_str, 1, Len(overlapping_str) - 1)), << >>)

\* --- _parse_overlapping_field(overlapping_str)
InitParse ==
    /\ NoPass
    /\ NoRun
    /\ NoTrain
    /\ args \in [overlapping_str : RawFields]
    /\ result = << >>
    /\ returned = FALSE

CallParseOverlappingField ==
    /\ ~returned
    /\ result' = _parse_overlapping_field(args.overlapping_str)
    /\ returned' = TRUE
    /\ UNCHANGED << passVars, runVars, trainVars, args >>

SpecParse == InitParse /\ [][CallParseOverlappingField]_vars

\* An index token holds an integer; a time token ends, after its last colon,
\* in a number.
IndexToken(tok) == \E i \in 1..Len(split(tok)) : isdigit(split(tok)[i])
TimeToken(tok) == IsFloat(AfterColon(tok))

\* The text is a run of triples "index,start,end," : 3k tokens, each triple
\* an index token and two time tokens, and nothing after the last comma.
WellFormed(field) ==
    /\ Len(field) % 3 = 1
    /\ field[Len(field)] = << >>
    /\ \A i \in 1..(Len(field) - 1) :
          IF i % 3 = 1 THEN IndexToken(field[i]) ELSE TimeToken(field[i])

\* C15: a raw overlap field that does not split into well-formed (index
\* token, start, end) triples makes _parse_overlapping_field fail; nothing of
\* it is dropped while the rest is accepted.  (Stated for fields that hold at
\* least one whole triple.)
C15_MalformedFails ==
    (/\ returned
     /\ Len(args.overlapping_str) > 3
     /\ ~WellFormed(args.overlapping_str)) => result.raised # ""

\* ==================================================== process_all_data
MaxRunRows == 2

\* The audio files of the rows: two of the same name in different folders
\* and one of another name.
AudioFiles ==
    { [parent |-> "d1", stem |-> "a", suffix |-> ".wav"],
      [parent |-> "d2", stem |-> "a", suffix |-> ".wav"],
      [parent |-> "d1", stem |-> "b", suffix |-> ".wav"] }

\* Path(file).stem: the last component without its suffix.
stem(file) == file.stem

Splits == {"train", "test"}

\* The annotated stretch of a row: short, or the whole file.
RunSpans == { << 0, 1 >>, << 0, MaxT >> }

RunRows ==
    { [file |-> f, final_source |-> l, split |-> sp, tmin |-> iv[1], tmax |-> iv[2]] :
        f \in AudioFiles, l \in Labels, sp \in Splits, iv \in RunSpans }

\* The tables of 1..MaxRunRows rows, up to the names of the labels, the
\* splits and the folders: the first row is of label x, split train and a
\* file of folder d1.
RunTables ==
    { t \in UNION { SeqsOf(RunRows, n) : n \in 1..MaxRunRows } :
        /\ t[1].final_source = "x"
        /\ t[1].split = "train"
        /\ t[1].file.parent = "d1" }

\* sf.read(file): every file holds MaxT samples recorded at rate 1.
sf_read(file) == [signal |-> [i \in 1..MaxT |-> 1], original_sr |-> 1]

\* signal[a:b]
Slice(signal, a, b) == SubSeq(signal, a + 1, Min2(b, Len(signal)))

\* Lines 326 and 333: the stretch of the row's file.
RowSignal(row) ==
    LET audio == sf_read(row.file)
    IN  Slice(audio.signal, audio.original_sr * row.tmin,
              audio.original_sr * row.tmax)

\* Line 335: the outcomes of process_data for the row.
RowOutcomes(row) ==
    process_data(self.sr, self.segment_length, self.pad_mode, RowSignal(row),
                 sf_read(row.file).original_sr)

\* Lines 337-340: the counter of the row's file.
Counted(fd, file) ==
    IF file \in DOMAIN fd THEN (file :> fd[file] + 1) @@ fd
    ELSE (file :> 0) @@ fd

\* Line 342, with the segment number and the suffix save_data adds (lines
\* 497, 503).  The numbers are written with at least three digits and never
\* cut, so a name is determined by its five parts.
SavingFilename(row, occurrence, idx, suffix) ==
    << row.split, row.final_source, stem(row.file), occurrence, idx, suffix >>

Suffix(saving_on_disk) ==
    IF saving_on_disk = "pickle" THEN ".pickle" ELSE ".wav"

\* The files after the first k segments were written under the row's path.
RECURSIVE Written(_, _, _, _, _)
Written(d, row, occurrence, segments, k) ==
    IF k = 0 THEN d
    ELSE (SavingFilename(row, occurrence, k - 1, Suffix(self.saving_on_disk))
             :> segments[k])
         @@ Written(d, row, occurrence, segments, k - 1)

\* Mutant: one label for the row, however many segments.
RepeatOnce(x, n) == << x >>

\* [x] * n
Repeat(x, n) == [i \in 1..n |-> x]

\* __init__, then the rows as add_file_column, filter_lower_sr, the overlap
\* pass and the split left them; process_all_data has run lines 317-320.
InitRun ==
    /\ df \in RunTables
    /\ df0 = << >>
    /\ scan = << >>
    /\ pos = 1
    /\ refpos = 1
    /\ segments_to_delete = << >>
    /\ not_count = FALSE
    /\ pc = "run"
    /\ args = << >>
    /\ result = << >>
    /\ returned = FALSE
    /\ self \in { o \in Objects : o.sr = 1 }
    /\ NoLists
    /\ NoTrain

idleVars == << df, df0, scan, refpos, segments_to_delete, not_count, args, self,
              epoch, best_accuracy, epochs_without_improvement, test_accs, saved_at >>

\* Lines 351-353, and the loop moves on.
Extended(segments) ==
    /\ processed_signals' = processed_signals \o segments
    /\ processed_labels' =
          processed_labels \o Repeat(df[pos].final_source, Len(segments))
    /\ processed_splits' = processed_splits \o Repeat(df[pos].split, Len(segments))
    /\ segment_rows' = segment_rows \o [i \in 1..Len(segments) |-> pos]
    /\ files_dict' = Counted(files_dict, df[pos].file)
    /\ pos' = pos + 1

InLoop == pc = "run" /\ pos <= Len(df)

\* One row whose padding finds no valid pad_mode: exit(1) at line 427.
RowExits ==
    /\ InLoop
    /\ \E out \in RowOutcomes(df[pos]) : out.exit
    /\ pc' = "exit"
    /\ log' = Append(log, "pad_mode not valid")
    /\ UNCHANGED << idleVars, pos, result, returned, processed_signals,
                    processed_labels, processed_splits, files_dict, disk,
                    segment_rows >>

\* One row with saving off (line 343 false).
RowNotSaved ==
    /\ InLoop
    /\ self.saving_on_disk = ""
    /\ \E out \in RowOutcomes(df[pos]) :
          /\ ~out.exit
          /\ Extended(out.segments)
    /\ UNCHANGED << idleVars, pc, result, returned, disk, log >>

\* One row whose segments are all written.
RowSaved ==
    /\ InLoop
    /\ self.saving_on_disk \in {"pickle", "wav"}
    /\ \E out \in RowOutcomes(df[pos]) :
          /\ ~out.exit
          /\ disk' = Written(disk, df[pos], Counted(files_dict, df[pos].file)[df[pos].file],
                             out.segments, Len(out.segments))
          /\ Extended(out.segments)
    /\ UNCHANGED << idleVars, pc, result, returned, log >>

\* Mutant: the exception of a failed write leaves process_all_data.
RowSaveFailedHalts ==
    /\ InLoop
    /\ self.saving_on_disk \in {"pickle", "wav"}
    /\ \E out \in RowOutcomes(df[pos]) :
          /\ ~out.exit
          /\ \E k \in 0..(Len(out.segments) - 1) :
                disk' = Written(disk, df[pos],
                                Counted(files_dict, df[pos].file)[df[pos].file],
                                out.segments, k)
          /\ files_dict' = Counted(files_dict, df[pos].file)
    /\ pc' = "raised"
    /\ UNCHANGED << idleVars, pos, result, returned, processed_signals,
                    processed_labels, processed_splits, log, segment_rows >>

\* One row with a write that fails (mkdir, open, pickle.dump or sf.write
\* raises) after k segments were written: caught at line 348 and logged.
RowSaveFailed ==
    /\ InLoop
    /\ self.saving_on_disk \in {"pickle", "wav"}
    /\ \E out \in RowOutcomes(df[pos]) :
          /\ ~out.exit
          /\ \E k \in 0..(Len(out.segments) - 1) :
                disk' = Written(disk, df[pos],
                                Counted(files_dict, df[pos].file)[df[pos].file],
                                out.segments, k)
          /\ Extended(out.segments)
    /\ log' = Append(log, "DataNotSaved")
    /\ UNCHANGED << idleVars, pc, result, returned >>

\* One row with saving on and a format save_data does not know: the
\* ValueError of line 506 is caught at line 348 and logged.
RowBadFormat ==
    /\ InLoop
    /\ self.saving_on_disk \notin {"", "pickle", "wav"}
    /\ \E out \in RowOutcomes(df[pos]) :
          /\ ~out.exit
          /\ Extended(out.segments)
    /\ log' = Append(log, "DataNotSaved")
    /\ UNCHANGED << idleVars, pc, result, returned, disk >>

\* Lines 357-358: the loop is over.
ReturnLists ==
    /\ pc = "run"
    /\ pos > Len(df)
    /\ Len(processed_signals) = Len(processed_labels)
    /\ pc' = "returned"
    /\ result' = << processed_signals, processed_labels, processed_splits >>
    /\ returned' = TRUE
    /\ UNCHANGED << idleVars, pos, processed_signals, processed_labels,
                    processed_splits, files_dict, disk, log, segment_rows >>

NextRun ==
    \/ RowExits
    \/ RowNotSaved
    \/ RowSaved
    \/ RowSaveFailed
    \/ RowBadFormat
    \/ ReturnLists

SpecRun == InitRun /\ [][NextRun]_vars

\* The signal of the row is shorter than a segment: it must be padded.
Short(row) == Len(RowSignal(row)) < self.segment_length

\* The number of segments process_data returns for the row.
NumSegments(row) ==
    IF Short(row) THEN 1 ELSE Len(RowSignal(row)) \div self.segment_length

\* C16: when a signal shorter than the target length must be padded and
\* pad_mode is neither zeros nor white_noise, the run ends there with an
\* error: no segment is returned for the signal, no later row is processed
\* and process_all_data does not return.
C16_BadPadModeExits ==
    self.pad_mode \notin {"zeros", "white_noise"} =>
        /\ \A i \in 1..Len(segment_rows) : ~Short(df[segment_rows[i]])
        /\ \A r \in 1..(pos - 1) : ~Short(df[r])
        /\ (pc = "run" /\ pos <= Len(df) /\ Short(df[pos])) =>
              make_padding(self.segment_length, self.pad_mode, RowSignal(df[pos]))
                  = { Exited }
        /\ pc = "exit" =>
              /\ Short(df[pos])
              /\ log[Len(log)] = "pad_mode not valid"
              /\ ~returned
              /\ result = << >>

\* The run has ended at the short signal of its second row, after the
\* segments of the first.
C16_Witness ==
    /\ pc = "exit"
    /\ pos = 2
    /\ processed_signals # << >>
    /\ ~Short(df[1])
    /\ ~returned

\* C17: the three lists of process_all_data have the same length after every
\* row and at return, and position i of the labels and of the splits holds
\* the label and the split of the row segment i was cut from: the segments
\* come row after row, as many as process_data returns for each.
C17_ListsAligned ==
    /\ Len(processed_labels) = Len(processed_signals)
    /\ Len(processed_splits) = Len(processed_signals)
    /\ Len(segment_rows) = Len(processed_signals)
    /\ \A i \in 1..Len(processed_signals) :
          /\ Len(processed_signals[i]) = self.segment_length
          /\ processed_labels[i] = df[segment_rows[i]].final_source
          /\ processed_splits[i] = df[segment_rows[i]].split
    /\ \A i \in 1..(Len(segment_rows) - 1) : segment_rows[i] <= segment_rows[i + 1]
    /\ \A r \in 1..Len(df) :
          Cardinality({ i \in 1..Len(segment_rows) : segment_rows[i] = r })
              = IF r < pos THEN NumSegments(df[r]) ELSE 0
    /\ returned =>
          result = << processed_signals, processed_labels, processed_splits >>

\* Two rows of different label and split, one of them cut into several
\* segments, have been returned.
C17_Witness ==
    /\ returned
    /\ Len(df) = 2
    /\ df[1].final_source # df[2].final_source
    /\ df[1].split # df[2].split
    /\ Len(result[1]) > 2

\* C18 as claimed: the names on disk are collision-free: when every write has
\* succeeded, every processed segment has a file of its own.
C18_NamesDistinct ==
    (self.saving_on_disk \in {"pickle", "wav"} /\ log = << >>)
        => Cardinality(DOMAIN disk) = Len(processed_signals)

\* What holds in every state of a run with a known format and a valid pad
\* mode: it goes on or has returned, and it returns the segments of every
\* row.
RunGoesOn ==
    (self.saving_on_disk \in {"pickle", "wav"}
     /\ self.pad_mode \in {"zeros", "white_noise"}) =>
        /\ pc \in {"run", "returned"}
        /\ returned =>
              /\ result = << processed_signals, processed_labels, processed_splits >>
              /\ { segment_rows[i] : i \in 1..Len(segment_rows) } = 1..Len(df)

\* What a step that logs a failed write does.
FailureRecovered ==
    (self.saving_on_disk \in {"pickle", "wav"} /\ log' = Append(log, "DataNotSaved")) =>
        /\ pc' = "run"
        /\ pos' = pos + 1
        /\ \E out \in RowOutcomes(df[pos]) :
              /\ ~out.exit
              /\ out.segments # << >>
              /\ processed_signals' = processed_signals \o out.segments
              /\ processed_labels' =
                    processed_labels \o [i \in 1..Len(out.segments) |-> df[pos].final_source]
              /\ processed_splits' =
                    processed_splits \o [i \in 1..Len(out.segments) |-> df[pos].split]

\* C19: a disk write failure while the segments of a row are saved does not
\* stop process_all_data: it is logged, the segments, labels and splits of
\* the row are appended all the same, the loop goes on to the next row, and
\* the lists returned hold the segments of every row.
C19_WriteFailureRecovered == [] RunGoesOn /\ [][FailureRecovered]_vars

\* A run of two rows has returned after one failed write, with files on
\* disk.
C19_Witness ==
    /\ returned
    /\ Len(df) = 2
    /\ log = << "DataNotSaved" >>
    /\ disk # << >>
    /\ self.saving_on_disk \in {"pickle", "wav"}

\* C20 as claimed: with saving on and a format other than pickle or wav, the
\* error of save_data halts the run: no row gets past it.
C20_BadFormatHalts ==
    self.saving_on_disk \notin {"", "pickle", "wav"} =>
        /\ pos = 1
        /\ processed_signals = << >>
        /\ ~returned

\* ======================================= filter_overlapping, step by step
\* Lines 212-214: the reference being looked at points at a row of the table
\* that carries the evaluated row's label.
OnSameClassRef ==
    /\ pc = "refs"
    /\ refpos <= Len(EvalRow.overlap_info_processed)
    /\ CurRef[1] \in Index(df)
    /\ EvalRow.final_source = Loc(df, CurRef[1]).final_source

\* Line 215: the row the reference points at.
OverlapRow == Loc(df, CurRef[1])

\* Line 216: how the evaluated row lies to the row the reference points at.
Superpos ==
    _check_superposition(<< EvalRow.tmin, EvalRow.tmax >>,
                         << OverlapRow.tmin, OverlapRow.tmax >>)

\* Every row but the one labelled idx is in d2 what it was in d1.
OthersKept(d1, d2, idx) ==
    /\ Len(d2) = Len(d1)
    /\ \A i \in 1..Len(d1) : d1[i].id # idx => d2[i] = d1[i]

\* Lines 217-222 when _handle_superposition returns False: the next reference
\* of the same row is looked at.
RefsGoOn ==
    /\ pc' = "refs"
    /\ pos' = pos
    /\ refpos' = refpos + 1
    /\ not_count' = FALSE
    /\ segments_to_delete' = segments_to_delete

\* C21: when the evaluated row e and a same-label row o partially overlap,
\* the step clips e only: STARTS_BEFORE sets e.tmax to o.tmin, STARTS_AFTER
\* sets e.tmin to o.tmax; afterwards the two meet at that bound without
\* interior overlap, o (and every other row) is what it was before the step,
\* and the pass goes on with e's next reference.
C21_ClipsEvaluatedOnly ==
    [][ /\ (OnSameClassRef /\ Superpos = STARTS_BEFORE_AND_OVERLAPS) =>
              /\ Loc(df', eval_idx).tmax = OverlapRow.tmin
              /\ Loc(df', eval_idx).tmin = EvalRow.tmin
              /\ OthersKept(df, df', eval_idx)
              /\ Loc(df', eval_idx).tmax = Loc(df', CurRef[1]).tmin
              /\ ~Overlap(Loc(df', eval_idx), Loc(df', CurRef[1]))
              /\ RefsGoOn
        /\ (OnSameClassRef /\ Superpos = STARTS_AFTER_AND_OVERLAPS) =>
              /\ Loc(df', eval_idx).tmin = OverlapRow.tmax
              /\ Loc(df', eval_idx).tmax = EvalRow.tmax
              /\ OthersKept(df, df', eval_idx)
              /\ Loc(df', eval_idx).tmin = Loc(df', CurRef[1]).tmax
              /\ ~Overlap(Loc(df', eval_idx), Loc(df', CurRef[1]))
              /\ RefsGoOn ]_vars

\* The evaluated row has been clipped at its end by its first reference, to a
\* row that is not zero-length, and its next reference is up.
C21_Witness ==
    /\ pc = "refs"
    /\ refpos = 2
    /\ EvalRow.tmin < EvalRow.tmax
    /\ EvalRow.tmax < df0[pos].tmax

\* ------------------------------------------- tables with every overlap recorded
\* Bounds of the tables below.
MaxTC == 4
NumRowsC == 3

\* Rows of one file that are not zero-length, over the times 0..MaxTC; the
\* first row is fixed to the first label.
ProperIntervals == { iv \in (0..MaxTC) \X (0..MaxTC) : iv[1] < iv[2] }

BasesC ==
    { b \in [1..NumRowsC -> [iv : ProperIntervals, final_source : Labels]] :
        b[1].final_source = "x" }

\* A row's references: one to every other row whose range shares more than a
\* point with its own, with the common sub-range.
OverlapRefs(base, i) ==
    { << j - 1, Common(base[i].iv, base[j].iv)[1], Common(base[i].iv, base[j].iv)[2] >> :
        j \in { k \in DOMAIN base :
                  /\ k # i
                  /\ Max2(base[i].iv[1], base[k].iv[1]) < Min2(base[i].iv[2], base[k].iv[2]) } }

\* The references in every order.
RowsC(base, i) ==
    LET refs == OverlapRefs(base, i)
        raw(overlapping, info) ==
            [id |-> i - 1, parent_file |-> "f1",
             tmin |-> base[i].iv[1], tmax |-> base[i].iv[2],
             final_source |-> base[i].final_source,
             overlapping |-> overlapping, overlap_info |-> info]
    IN  IF refs = {} THEN { raw(NaN, << >>) }
        ELSE { raw(<< Len(l) >>, l) :
                 l \in { m \in RefLists(refs, Cardinality(refs)) :
                           Len(m) = Cardinality(refs) } }

RECURSIVE TablesC(_, _)
TablesC(base, k) ==
    IF k = 0 THEN { << >> }
    ELSE UNION { { Append(t, r) : r \in RowsC(base, k) } : t \in TablesC(base, k - 1) }

InitComplete ==
    /\ \E base \in BasesC : df0 \in TablesC(base, NumRowsC)
    /\ df = df0
    /\ scan = << >>
    /\ pos = 1
    /\ refpos = 1
    /\ segments_to_delete = << >>
    /\ not_count = FALSE
    /\ pc = "start"
    /\ args = << >>
    /\ result = << >>
    /\ returned = FALSE
    /\ NoRun
    /\ NoTrain

\* No row of these tables refers to a row that is not in the table, so lines
\* 207-208 are never taken.
NextComplete ==
    \/ StartPass
    \/ SkipRow
    \/ BeginRow
    \/ RefDifferentClass
    \/ RefSameClass
    \/ DivideRow
    \/ Compact

SpecComplete == InitComplete /\ [][NextComplete]_vars

\* Lines 223-224: the references of the evaluated row are exhausted.
OnDivide == pc = "refs" /\ refpos > Len(EvalRow.overlap_info_processed)

\* C22: every row the pass appends for a row e is a copy of e (label and
\* parent file) whose bounds lie within e's [tmin, tmax] as the same-label
\* truncations of that step have left them.
C22_SplitWithinTruncated ==
    [][ OnDivide =>
          \A i \in (Len(df) + 1)..Len(df') :
              /\ df'[i].final_source = EvalRow.final_source
              /\ df'[i].parent_file = EvalRow.parent_file
              /\ EvalRow.tmin <= df'[i].tmin
              /\ df'[i].tmax <= EvalRow.tmax ]_vars

\* The marked rows of d, as positions.
Marked(d) == { i \in 1..Len(d) : d[i].to_delete }

\* C23 as claimed: when the evaluated row e lies within a same-label row o of
\* the table (o.tmin <= e.tmin, e.tmax <= o.tmax), the step marks e and
\* appends nothing, e's remaining references are not looked at (the scan moves
\* to the next row, so e is never split and its excise ranges are never
\* used), a marked row stays marked, and the table the pass returns holds the
\* unmarked rows only.
C23_ContainedDropped ==
    [][ /\ (/\ OnSameClassRef
            /\ OverlapRow.tmin <= EvalRow.tmin
            /\ EvalRow.tmax <= OverlapRow.tmax) =>
               /\ Loc(df', eval_idx).to_delete
               /\ OthersKept(df, df', eval_idx)
               /\ not_count'
               /\ pc' = "scan"
               /\ pos' = pos + 1
        /\ (pc \in { "scan", "refs" } /\ pc' \in { "scan", "refs" }) =>
               \A i \in Marked(df) : df'[i].to_delete
        /\ (pc = "scan" /\ pc' = "done") =>
               Len(df') = Len(df) - Cardinality(Marked(df)) ]_vars

\* The rows appended since the pass started, as annotations in row order.
AppendedRows(d) == [i \in 1..(Len(d) - Len(df0)) |-> Annotation(d[Len(df0) + i])]

\* C24: when the pass returns, the table has no to_delete column and its
\* rows are labelled 0..n-1; the rows marked at that point are exactly the
\* original rows that had an overlap field, and the rows returned are the
\* original rows without an overlap field followed by the rows appended by
\* splits.
C24_OutputIsSurvivors ==
    /\ [] (pc = "done" =>
              \A i \in 1..Len(df) :
                  df[i].id = i - 1 /\ "to_delete" \notin DOMAIN df[i])
    /\ [][ (pc = "scan" /\ pc' = "done") =>
              /\ Marked(df) = { i \in 1..Len(df0) : ~isna(df0[i].overlapping) }
              /\ [i \in 1..Len(df') |-> Annotation(df'[i])]
                    = NullRows(df0) \o AppendedRows(df) ]_vars

\* The pass has returned a row without an overlap field and a row appended by
\* a split, and has removed the row that was split.
C24_Witness ==
    /\ pc = "done"
    /\ Len(df0) = 2
    /\ NullRows(df0) # << >>
    /\ Len(df) > Len(NullRows(df0))
    /\ \E r \in Rows(df) : ~isna(r.overlapping)

\* C25: at every point of the pass the index labels of the table are
\* pairwise distinct; a step before the final reset_index changes no row's
\* label, and each row it appends gets a label greater than every label of
\* the table and of the rows appended before it.
C25_LabelsDistinct ==
    /\ [] (Cardinality(Index(df)) = Len(df))
    /\ [][ (pc \in { "scan", "refs" } /\ pc' \in { "scan", "refs" }) =>
              /\ Len(df') >= Len(df)
              /\ \A i \in 1..Len(df) : df'[i].id = df[i].id
              /\ \A i \in (Len(df) + 1)..Len(df') :
                     \A j \in 1..(i - 1) : df'[i].id > df'[j].id ]_vars

\* A split has appended two rows to a table of two.
C25_Witness ==
    /\ pc = "scan"
    /\ Len(df0) = 2
    /\ Len(df) = 4
    /\ Index(df) = { 0, 1, 2, 3 }

\* The pass as the interpreter runs it: the loop of lines 199-233 is
\* sequential code, a step that can be taken is taken.
FairSpec == Spec /\ WF_vars(Next)

\* C27: the pass terminates, although rows are appended while it scans.  It
\* is a single pass: the labels walked are those of the rows present at the
\* start, one after the other and each once, and the references looked at
\* for a row are those its overlap field held at the start, one after the
\* other.
C27_SinglePassTerminates ==
    /\ <>(pc = "done")
    /\ [] (pc \in { "scan", "refs", "done" } =>
              /\ scan = [i \in 1..Len(df0) |-> df0[i].id]
              /\ pos <= Len(df0) + 1)
    /\ [] (pc = "done" => pos = Len(df0) + 1)
    /\ [] (pc = "refs" =>
              /\ EvalRow.id = df0[pos].id
              /\ EvalRow.overlap_info_processed = _extract_overlapping_info(df0)[pos]
              /\ refpos <= Len(df0[pos].overlap_info) + 1)
    /\ [][ /\ pos' \in { pos, pos + 1 }
           /\ pc = "refs" => (pos' = pos => refpos' = refpos + 1) ]_vars

\* The pass has finished on a table to which it appended more rows than it
\* had at the start.
C27_Witness ==
    /\ pc = "done"
    /\ Len(df0) = 2
    /\ \A i \in 1..Len(df0) : ~isna(df0[i].overlapping)
    /\ Len(df) > Len(df0)

\* The unit cells [c, c+1] of time that the rows of d cover.
Covered(d) == { c \in 0..(MaxTC - 1) : \E r \in Rows(d) : r.tmin <= c /\ c < r.tmax }

\* All the rows of d carry one label.
OneLabel(d) == \A r, q \in Rows(d) : r.final_source = q.final_source

\* C28: for rows of one file that are not zero-length and all carry the same
\* label, with every overlap recorded on both rows, the rows the pass returns
\* cover the time the input rows cover, for every row order and every order
\* of the references of a row.
C28_NoLabelledTimeLost ==
    (pc = "done" /\ OneLabel(df0)) => Covered(df) = Covered(df0)

\* ============================================== split_train_test_balanced
\* Bounds of the tables below.
MaxSplitRows == 4

\* Files of the table and the values of test_size: a fraction <<num, den>>,
\* 0.2 being the default.
SplitFiles == { "a", "b", "c", "d" }
TestSizes == { << 1, 5 >>, << 1, 2 >> }

\* Labels in sorted order, as Series.mode() returns them.
SortedLabels == << "x", "y" >>

RECURSIVE SumOver(_, _)
\* Sum of f over the set S.
SumOver(f, S) ==
    IF S = {} THEN 0
    ELSE LET c == CHOOSE e \in S : TRUE IN f[c] + SumOver(f, S \ { c })

\* Number of rows of file f that carry label l.
Count(d, f, l) ==
    Cardinality({ i \in 1..Len(d) : d[i].parent_file = f /\ d[i].final_source = l })

\* x.mode()[0] on the labels of file f: the most frequent label, the first in
\* sorted order when several are.
mode(d, f) ==
    LET best == CHOOSE k \in 1..Len(SortedLabels) :
                   /\ \A j \in 1..Len(SortedLabels) :
                          Count(d, f, SortedLabels[j]) <= Count(d, f, SortedLabels[k])
                   /\ \A j \in 1..(k - 1) :
                          Count(d, f, SortedLabels[j]) < Count(d, f, SortedLabels[k])
    IN  SortedLabels[best]

\* Lines 159-160: one entry per file of the table, with its majority label.
file_labels(d) ==
    [f \in { d[i].parent_file : i \in 1..Len(d) } |-> mode(d, f)]

\* file_labels.duplicated('final_source', keep=False)
duplicated(fl, f) == \E g \in DOMAIN fl : g # f /\ fl[g] = fl[f]

\* Lines 166-167.
single_instance_files(fl) == { f \in DOMAIN fl : ~duplicated(fl, f) }
multiple_instance_files(fl) == { f \in DOMAIN fl : duplicated(fl, f) }

\* sklearn _validate_shuffle_split for a float test_size and no train_size:
\* <<n_train, n_test>> with n_test = ceil(test_size * n_samples).
_validate_shuffle_split(n_samples, test_size) ==
    LET n_test == CeilDiv(test_size[1] * n_samples, test_size[2])
    IN  << n_samples - n_test, n_test >>

\* sklearn _approximate_mode: n_draws split over the classes in proportion to
\* class_counts, the floors first and the rest to the classes with the largest
\* remainders, ties drawn at random.  The set of the possible results.
_approximate_mode(class_counts, n_draws) ==
    LET classes == DOMAIN class_counts
        n == SumOver(class_counts, classes)
        floored == [c \in classes |-> (class_counts[c] * n_draws) \div n]
        remainder == [c \in classes |-> (class_counts[c] * n_draws) % n]
    IN  { a \in [classes -> 0..n_draws] :
            /\ \A c \in classes : a[c] \in { floored[c], floored[c] + 1 }
            /\ SumOver(a, classes) = n_draws
            /\ \A c, e \in classes :
                   (a[c] > floored[c] /\ a[e] = floored[e]) => remainder[c] >= remainder[e] }

\* The classes of the stratified split and their sizes.
Classes(fl, files) == { fl[f] : f \in files }
ClassCounts(fl, files) ==
    [c \in Classes(fl, files) |-> Cardinality({ f \in files : fl[f] = c })]

\* StratifiedShuffleSplit.split raises ValueError: no sample at all, or fewer
\* train or test samples than classes.
SplitFails(fl, files, test_size) ==
    LET sizes == _validate_shuffle_split(Cardinality(files), test_size)
    IN  \/ files = {}
        \/ sizes[1] < Cardinality(Classes(fl, files))
        \/ sizes[2] < Cardinality(Classes(fl, files))

\* Lines 170-174: the <<train_files, test_files>> the one split can yield.
\* Per class, n_i files chosen at random go to train and t_i of the others
\* to test.
StratifiedShuffleSplit(fl, files, test_size) ==
    LET sizes == _validate_shuffle_split(Cardinality(files), test_size)
        counts == ClassCounts(fl, files)
    IN  { << train_files, test_files >> \in (SUBSET files) \X (SUBSET files) :
            /\ train_files \cap test_files = {}
            /\ \E n_i \in _approximate_mode(counts, sizes[1]) :
                 \E t_i \in _approximate_mode([c \in DOMAIN counts |-> counts[c] - n_i[c]],
                                              sizes[2]) :
                   \A c \in DOMAIN counts :
                       /\ Cardinality({ f \in train_files : fl[f] = c }) = n_i[c]
                       /\ Cardinality({ f \in test_files : fl[f] = c }) = t_i[c] }

\* Mutant: line 176 is missing.
train_without_singles(train_files, singles) == train_files

\* Line 176: pd.concat([train_files, single_instance_files['parent_file']])
train_with_singles(train_files, singles) == train_files \cup singles

\* Line 163 and lines 179-180: '' on every row, then 'train' and 'test' by
\* parent_file.
Tagged(d, train_files, test_files) ==
    [i \in 1..Len(d) |->
        [parent_file |-> d[i].parent_file, final_source |-> d[i].final_source,
         split |-> IF d[i].parent_file \in test_files THEN "test"
                   ELSE IF d[i].parent_file \in train_files THEN "train"
                   ELSE ""]]

\* Files are only ever compared for equality, so the first row is fixed to
\* the first file.
SplitTables ==
    UNION { { t \in [1..n -> [parent_file : SplitFiles, final_source : Labels]] :
                t[1].parent_file = "a" } :
            n \in 1..MaxSplitRows }

InitSplit ==
    /\ df0 \in SplitTables
    /\ df = df0
    /\ args \in [test_size : TestSizes]
    /\ pc = "split"
    /\ scan = << >>
    /\ pos = 1
    /\ refpos = 1
    /\ segments_to_delete = << >>
    /\ not_count = FALSE
    /\ result = << >>
    /\ returned = FALSE
    /\ NoRun
    /\ NoTrain

\* Lines 159-180, sss.split yielding a split.
SplitReturns ==
    /\ pc = "split"
    /\ LET fl == file_labels(df)
           multiple == multiple_instance_files(fl)
       IN  /\ ~SplitFails(fl, multiple, args.test_size)
           /\ \E s \in StratifiedShuffleSplit(fl, multiple, args.test_size) :
                df' = Tagged(df, train_with_singles(s[1], single_instance_files(fl)), s[2])
    /\ pc' = "split_done"
    /\ returned' = TRUE
    /\ UNCHANGED << runVars, trainVars, df0, scan, pos, refpos, segments_to_delete, not_count,
                    args, result >>

\* Lines 159-171, sss.split raising: the split column holds '' on every row.
SplitRaises ==
    /\ pc = "split"
    /\ LET fl == file_labels(df)
       IN  SplitFails(fl, multiple_instance_files(fl), args.test_size)
    /\ df' = Tagged(df, {}, {})
    /\ result' = Raised("ValueError")
    /\ pc' = "split_raised"
    /\ UNCHANGED << runVars, trainVars, df0, scan, pos, refpos, segments_to_delete, not_count,
                    args, returned >>

NextSplit ==
    \/ SplitReturns
    \/ SplitRaises

SpecSplit == InitSplit /\ [][NextSplit]_vars

\* C26: after split_train_test_balanced every row carries 'train' or
\* 'test', the rows of one parent_file carry the same tag, and every file
\* whose majority label is the majority label of no other file is tagged
\* 'train'.
C26_SplitByFile ==
    pc = "split_done" =>
        /\ \A r \in Rows(df) : r.split \in { "train", "test" }
        /\ \A r, q \in Rows(df) : r.parent_file = q.parent_file => r.split = q.split
        /\ \A r \in Rows(df) :
               (\A q \in Rows(df0) :
                    q.parent_file # r.parent_file
                        => mode(df0, q.parent_file) # mode(df0, r.parent_file))
                  => r.split = "train"

\* The split has put a file in each set, and a third file, alone with its
\* majority label, in the train set.
C26_Witness ==
    /\ pc = "split_done"
    /\ \E r, q, s \in Rows(df) :
          /\ r.split = "train" /\ q.split = "test"
          /\ mode(df0, r.parent_file) = mode(df0, q.parent_file)
          /\ s.split = "train"
          /\ mode(df0, s.parent_file) # mode(df0, r.parent_file)

\* ========================================================= EffAtModel.train
\* Bounds of the runs below.
MaxEpochs == 6
MaxPatience == 2

\* Values of test_accuracy = 100 * correct / total (line 274).
Accuracies == { 0, 50, 100 }

\* Mutant: an epoch that equals the best accuracy counts as an improvement.
improves_or_equal(test_accuracy, best) == test_accuracy >= best

\* Line 284.
improves(test_accuracy, best) == test_accuracy > best

\* Line 307.
early_stop(count, patience) == count >= patience

\* Lines 176-208: the configuration and the dataloaders (number of batches of
\* each), the locals as lines 201-205 set them.
InitTrain ==
    /\ NoPass
    /\ NoRun
    /\ NoTrain
    /\ args \in [n_epochs : 0..MaxEpochs, patience : 0..MaxPatience,
                 train_batches : 0..1, test_batches : 0..1]
    /\ result = << >>
    /\ returned = FALSE

\* Another iteration of the loop of line 209 is due.
InEpoch == ~returned /\ result = << >> /\ epoch < args.n_epochs

\* Lines 242 and 273: a dataloader without batches, the division by
\* batch_count raises.
EpochRaises ==
    /\ InEpoch
    /\ args.train_batches = 0 \/ args.test_batches = 0
    /\ result' = Raised("ZeroDivisionError")
    /\ UNCHANGED << passVars, runVars, trainVars, args, returned >>

\* Lines 210-301 and 307-309: an epoch with a new best test accuracy; the
\* weights and the results are saved.
EpochImproves ==
    /\ InEpoch
    /\ args.train_batches > 0 /\ args.test_batches > 0
    /\ \E test_accuracy \in Accuracies :
         /\ improves(test_accuracy, best_accuracy)
         /\ test_accs' = Append(test_accs, test_accuracy)
         /\ best_accuracy' = test_accuracy
    /\ epochs_without_improvement' = 0
    /\ saved_at' = Append(saved_at, epoch)
    /\ epoch' = epoch + 1
    /\ returned' = early_stop(0, args.patience)
    /\ UNCHANGED << passVars, runVars, args, result >>

\* Lines 210-282 and 303-309: an epoch without one.
EpochDoesNotImprove ==
    /\ InEpoch
    /\ args.train_batches > 0 /\ args.test_batches > 0
    /\ \E test_accuracy \in Accuracies :
         /\ ~improves(test_accuracy, best_accuracy)
         /\ test_accs' = Append(test_accs, test_accuracy)
    /\ epochs_without_improvement' = epochs_without_improvement + 1
    /\ epoch' = epoch + 1
    /\ returned' = early_stop(epochs_without_improvement + 1, args.patience)
    /\ UNCHANGED << passVars, runVars, args, result, best_accuracy, saved_at >>

\* Line 209: range(n_epochs) is exhausted.
TrainReturns ==
    /\ ~returned
    /\ result = << >>
    /\ epoch = args.n_epochs
    /\ returned' = TRUE
    /\ UNCHANGED << passVars, runVars, trainVars, args, result >>

NextTrain ==
    \/ EpochRaises
    \/ EpochImproves
    \/ EpochDoesNotImprove
    \/ TrainReturns

SpecTrain == InitTrain /\ [][NextTrain]_vars

\* The epoch that ends in this step.
EpochEnds == epoch' = epoch + 1

\* The epoch that ends in this step has a test accuracy above that of every
\* earlier epoch.
AboveEarlier ==
    \A k \in 1..Len(test_accs) : test_accs'[Len(test_accs')] > test_accs[k]

\* An epoch starts only while the count is below the patience (or as the
\* first epoch), the loop is left after an epoch exactly when the count has
\* reached the patience or the epochs are used up, and there are never more
\* than n_epochs epochs.
StopsInTime ==
    /\ EpochEnds =>
          /\ epoch = 0 \/ epochs_without_improvement < args.patience
          /\ epoch' <= args.n_epochs
          /\ returned' <=> epochs_without_improvement' >= args.patience
    /\ (returned' /\ ~returned /\ ~EpochEnds) => epoch = args.n_epochs

\* C29 as claimed: the count is reset to 0, and weights and results are
\* saved, in exactly the epochs whose test accuracy is strictly greater than
\* that of every earlier epoch, and the count is incremented in every other
\* epoch; training stops after the first epoch at which the count reaches
\* the patience and never runs more than n_epochs epochs.
C29_Original ==
    [][ /\ EpochEnds =>
             IF AboveEarlier
               THEN /\ epochs_without_improvement' = 0
                    /\ saved_at' = Append(saved_at, epoch)
               ELSE /\ epochs_without_improvement' = epochs_without_improvement + 1
                    /\ saved_at' = saved_at
        /\ StopsInTime ]_vars

\* C29 amended: the same, the epochs that reset the count and save being
\* those whose test accuracy is strictly greater than that of every earlier
\* epoch and greater than 0, the value best_accuracy starts with.
C29_ResetOnNewBest ==
    [][ /\ EpochEnds =>
             IF AboveEarlier /\ test_accs'[Len(test_accs')] > 0
               THEN /\ epochs_without_improvement' = 0
                    /\ saved_at' = Append(saved_at, epoch)
               ELSE /\ epochs_without_improvement' = epochs_without_improvement + 1
                    /\ saved_at' = saved_at
        /\ StopsInTime ]_vars

\* Training has saved twice, the second time after an epoch without
\* improvement, then gone two epochs without improvement and stopped early.
C29_Witness ==
    /\ returned
    /\ epoch < args.n_epochs
    /\ args.patience = 2
    /\ epochs_without_improvement = 2
    /\ saved_at = << 0, 2 >>

====
